---------------------------- MODULE Spec2Model ----------------------------
(***************************************************************************)
(* Galois field GF(2^M) arithmetic of galois_field_2pm.                    *)
(*                                                                         *)
(* Representation.  An unsigned machine integer (u8 .. u128, usize) is the *)
(* set of the positions of its 1 bits, so 0x11D is {0, 2, 3, 4, 8}; a      *)
(* width is given by the parameter BITS of the operator that needs it.     *)
(* Signed indices and table positions (isize, i16, i32) are TLA+ integers. *)
(* U256 is the record [lower, upper] of two 128-bit integers.  A call that *)
(* panics yields Panic, a call that returns v yields Ok(v).                *)
(***************************************************************************)
EXTENDS Integers, FiniteSets, Sequences, TLC

-----------------------------------------------------------------------------
(* Machine integers *)

RECURSIVE Bits(_)
\* The integer literal n as a machine integer.
Bits(n) == IF n = 0 THEN {}
           ELSE (IF n % 2 = 1 THEN {0} ELSE {}) \cup {i + 1 : i \in Bits(n \div 2)}

RECURSIVE Val(_)
\* The numeric value of a machine integer (`as usize`, `as isize`).
Val(x) == IF x = {} THEN 0
          ELSE LET i == CHOOSE j \in x : TRUE IN 2^i + Val(x \ {i})

Cast(x, BITS) == {i \in x : i < BITS}                 \* x as uBITS
BitXor(x, y)  == {i \in x \cup y : ~(i \in x /\ i \in y)}
BitAnd(x, y)  == {i \in x : i \in y}
BitOr(x, y)   == {i \in x \cup y : TRUE}
BitNot(x, BITS) == {i \in 0..(BITS - 1) : i \notin x}
Shl(x, n, BITS) == {i + n : i \in {j \in x : j + n < BITS}}
Shr(x, n)     == {i - n : i \in {j \in x : j >= n}}

Panic == [panic |-> TRUE]
Ok(v) == [panic |-> FALSE, value |-> v]

\* u128::leading_zeros: the number of zero bits above the highest set bit,
\* 128 for 0.
leading_zeros(x) ==
    IF x = {} THEN 128 ELSE 127 - (CHOOSE i \in x : \A j \in x : j <= i)

\* calc_degree of lib.rs with 128 - leading_zeros(x).
calc_degree_from_128(x) == 128 - leading_zeros(x)

\* calc_degree of lib.rs: 127 - leading_zeros(x), an i16.
calc_degree(x) == 127 - leading_zeros(x)

-----------------------------------------------------------------------------
(* Carry-less multiplication, gf2/clmul.rs *)

\* The body of the for loop of clmul testing b >> i instead of its low bit.
clmul_step_unmasked(BITS, a, b, s) ==
    LET set == Shr(b, s.i) # {}
    IN [i |-> s.i + 1,
        c |-> IF set THEN BitXor(s.c, Shl(a, s.i, 2 * BITS)) ELSE s.c]

\* The loop body of clmul shifting a in its own width: the bits shifted
\* above BITS are lost.
clmul_step_narrow(BITS, a, b, s) ==
    LET set == BitAnd(Shr(b, s.i), {0}) # {}
    IN [i |-> s.i + 1,
        c |-> IF set THEN BitXor(s.c, Shl(a, s.i, BITS)) ELSE s.c]

\* One pass of the body of the for loop of clmul; s holds i and c.
clmul_step(BITS, a, b, s) ==
    LET set == BitAnd(Shr(b, s.i), {0}) # {}
    IN [i |-> s.i + 1,
        c |-> IF set THEN BitXor(s.c, Shl(a, s.i, 2 * BITS)) ELSE s.c]

RECURSIVE clmul_loop(_, _, _, _, _)
\* n passes of the for loop from loop state s.
clmul_loop(BITS, a, b, n, s) ==
    IF ~(s.i < BITS) \/ n <= 0 THEN s
    ELSE IF n = 1 THEN clmul_step(BITS, a, b, s)
    ELSE clmul_loop(BITS, a, b, n - (n \div 2),
                    clmul_loop(BITS, a, b, n \div 2, s))

\* clmul whose loop stops one bit short of the width.
clmul_short(BITS, a, b) == clmul_loop(BITS, a, b, BITS - 1, [i |-> 0, c |-> {}]).c

\* clmul of u8, u16, u32, u64: two BITS-bit operands, a 2*BITS-bit result.
clmul(BITS, a, b) == clmul_loop(BITS, a, b, BITS, [i |-> 0, c |-> {}]).c

-----------------------------------------------------------------------------
(* GF(2) polynomial division, gf2/clmul.rs *)

\* One pass of the body of the for loop of gf2_poly_div; s holds cur_deg,
\* q and r.
gf2_poly_div_step(BITS, dividend, d, mask, s) ==
    LET bit == BitAnd(Shr(s.r, d), {0}) # {}
        q1  == IF bit THEN BitOr(Shl(s.q, 1, BITS), {0}) ELSE Shl(s.q, 1, BITS)
        r1  == BitOr(Shl(s.r, 1, BITS), BitAnd(Shr(dividend, s.cur_deg), {0}))
        r2  == IF bit THEN BitXor(r1, mask) ELSE r1
    IN [cur_deg |-> s.cur_deg - 1, q |-> q1, r |-> r2]

RECURSIVE gf2_poly_div_loop(_, _, _, _, _, _)
\* n passes of the for loop from loop state s.
gf2_poly_div_loop(BITS, dividend, d, mask, n, s) ==
    IF ~(s.cur_deg >= 0) \/ n <= 0 THEN s
    ELSE IF n = 1 THEN gf2_poly_div_step(BITS, dividend, d, mask, s)
    ELSE gf2_poly_div_loop(BITS, dividend, d, mask, n - (n \div 2),
             gf2_poly_div_loop(BITS, dividend, d, mask, n \div 2, s))

\* The loop of gf2_poly_div entered at every bit of the type, not at the
\* degree of the dividend.
gf2_poly_div_start_full_width(BITS, dividend) ==
    [cur_deg |-> BITS - 1, q |-> {}, r |-> {}]

\* q, r and the first cur_deg of (0..=calc_degree(dividend)).rev().
gf2_poly_div_start(BITS, dividend) ==
    [cur_deg |-> calc_degree(dividend), q |-> {}, r |-> {}]

\* gf2_poly_div without the final mask of the remainder.
gf2_poly_div_unmasked(BITS, dividend, divisor) ==
    IF divisor = {} THEN Panic
    ELSE IF divisor = {0} THEN Ok([q |-> dividend, r |-> {}])
    ELSE LET deg_divisor == calc_degree(divisor)
             d    == deg_divisor - 1
             mask == BitAnd(divisor, BitNot(Shl({0}, deg_divisor, BITS), BITS))
             top  == calc_degree(dividend)
             qr   == gf2_poly_div_loop(BITS, dividend, d, mask, top + 1,
                                       [cur_deg |-> top, q |-> {}, r |-> {}])
         IN Ok([q |-> qr.q, r |-> qr.r])

\* gf2_poly_div of u8 .. u128: (quotient, remainder) of dividend / divisor.
gf2_poly_div(BITS, dividend, divisor) ==
    IF divisor = {} THEN Panic
    ELSE IF divisor = {0} THEN Ok([q |-> dividend, r |-> {}])
    ELSE LET deg_divisor == calc_degree(divisor)
             d    == deg_divisor - 1
             mask == BitAnd(divisor, BitNot(Shl({0}, deg_divisor, BITS), BITS))
             top  == calc_degree(dividend)
             qr   == gf2_poly_div_loop(BITS, dividend, d, mask, top + 1,
                                       gf2_poly_div_start(BITS, dividend))
         IN Ok([q |-> qr.q,
                r |-> BitAnd(qr.r, 0..(deg_divisor - 1))])

-----------------------------------------------------------------------------
(* U256, its carry-less product and its polynomial division, gf2/clmul.rs *)

U256(lower, upper) == [lower |-> lower, upper |-> upper]

\* u128::checked_shl(rhs).unwrap_or(0) and u128::checked_shr(rhs).unwrap_or(0)
checked_shl(val, rhs) == IF rhs < 128 THEN Shl(val, rhs, 128) ELSE {}
checked_shr(val, rhs) == IF rhs < 128 THEN Shr(val, rhs) ELSE {}

\* U256::new that drops the bits of val shifted above the lower half.
U256_new_lower_only(overflow_checks, val, shift) ==
    IF shift > 128 /\ overflow_checks THEN Panic
    ELSE Ok(U256(checked_shl(val, shift), {}))

\* U256::new(val, shift).  128 - shift is a u32 subtraction: with a shift
\* above 128 it panics where the build checks arithmetic overflow, and wraps
\* to 2^32 + 128 - shift, an amount checked_shr rejects, where it does not.
U256_new(overflow_checks, val, shift) ==
    IF shift > 128
    THEN IF overflow_checks THEN Panic
         ELSE Ok(U256(checked_shl(val, shift), {}))
    ELSE Ok(U256(checked_shl(val, shift), checked_shr(val, 128 - shift)))

U256_bitand(u, v) == U256(BitAnd(u.lower, v.lower), BitAnd(u.upper, v.upper))
U256_bitor(u, v)  == U256(BitOr(u.lower, v.lower), BitOr(u.upper, v.upper))
U256_bitxor(u, v) == U256(BitXor(u.lower, v.lower), BitXor(u.upper, v.upper))
U256_not(u)       == U256(BitNot(u.lower, 128), BitNot(u.upper, 128))

\* shl whose upper half misses the bits that leave the lower half.
U256_shl_no_spill(u, shift) ==
    IF shift = 0 THEN u
    ELSE IF shift <= 127
         THEN U256(Shl(u.lower, shift, 128), Shl(u.upper, shift, 128))
    ELSE IF shift <= 255 THEN U256({}, Shl(u.lower, shift - 128, 128))
    ELSE U256({}, {})

U256_shl(u, shift) ==
    IF shift = 0 THEN u
    ELSE IF shift <= 127
         THEN LET spill == Shr(u.lower, 128 - shift)
              IN U256(Shl(u.lower, shift, 128),
                      BitXor(Shl(u.upper, shift, 128), spill))
    ELSE IF shift <= 255 THEN U256({}, Shl(u.lower, shift - 128, 128))
    ELSE U256({}, {})

U256_shr(u, shift) ==
    IF shift = 0 THEN u
    ELSE IF shift <= 127
         THEN LET spill == Shl(u.upper, 128 - shift, 128)
              IN U256(BitXor(Shr(u.lower, shift), spill),
                      Shr(u.upper, shift))
    ELSE IF shift <= 255 THEN U256(Shr(u.upper, shift - 128), {})
    ELSE U256({}, {})

\* One turn of the loop of u128::clmul; the accumulator c is an outcome.
clmul_u128_step(overflow_checks, a, b, s) ==
    LET set == BitAnd(Shr(b, s.i), {0}) # {}
        w   == U256_new(overflow_checks, a, s.i)
    IN [i |-> s.i + 1,
        c |-> IF s.c.panic \/ ~set THEN s.c
              ELSE IF w.panic THEN Panic
              ELSE Ok(U256_bitxor(s.c.value, w.value))]

RECURSIVE clmul_u128_loop(_, _, _, _, _)
clmul_u128_loop(overflow_checks, a, b, n, s) ==
    IF ~(s.i < 128) \/ n <= 0 THEN s
    ELSE IF n = 1 THEN clmul_u128_step(overflow_checks, a, b, s)
    ELSE clmul_u128_loop(overflow_checks, a, b, n - (n \div 2),
             clmul_u128_loop(overflow_checks, a, b, n \div 2, s))

\* u128::clmul(a, b), a U256.
clmul_u128(overflow_checks, a, b) ==
    clmul_u128_loop(overflow_checks, a, b, 128,
                    [i |-> 0, c |-> Ok(U256({}, {}))]).c

calc_degree_256(u) ==
    IF u.upper # {} THEN calc_degree(u.upper) + 128 ELSE calc_degree(u.lower)

\* q, r and the first cur_deg of (0..=calc_degree_256(dividend)).rev().
U256_gf2_poly_div_start(dividend) ==
    [cur_deg |-> calc_degree_256(dividend), q |-> U256({}, {}),
     r |-> U256({}, {})]

\* One turn of the loop of U256::gf2_poly_div.
U256_gf2_poly_div_step(dividend, d, mask, s) ==
    LET bit == BitAnd(U256_shr(s.r, d).lower, {0}) # {}
        q0  == U256_shl(s.q, 1)
        q1  == IF bit THEN U256(BitOr(q0.lower, {0}), q0.upper) ELSE q0
        r1  == U256_bitor(U256_shl(s.r, 1),
                          U256_bitand(U256_shr(dividend, s.cur_deg),
                                      U256({0}, {})))
        r2  == IF bit THEN U256_bitxor(r1, mask) ELSE r1
    IN [cur_deg |-> s.cur_deg - 1, q |-> q1, r |-> r2]

RECURSIVE U256_gf2_poly_div_loop(_, _, _, _, _)
U256_gf2_poly_div_loop(dividend, d, mask, n, s) ==
    IF ~(s.cur_deg >= 0) \/ n <= 0 THEN s
    ELSE IF n = 1 THEN U256_gf2_poly_div_step(dividend, d, mask, s)
    ELSE U256_gf2_poly_div_loop(dividend, d, mask, n - (n \div 2),
             U256_gf2_poly_div_loop(dividend, d, mask, n \div 2, s))

\* U256::gf2_poly_div: (quotient, remainder) of dividend / divisor.
U256_gf2_poly_div(overflow_checks, dividend, divisor) ==
    IF divisor = U256({}, {}) THEN Panic
    ELSE IF divisor = U256({0}, {}) THEN Ok([q |-> dividend, r |-> U256({}, {})])
    ELSE LET deg_divisor == calc_degree_256(divisor)
             d    == deg_divisor - 1
             lead == U256_new(overflow_checks, {0}, deg_divisor)
             mask == U256_bitand(divisor, U256_not(lead.value))
             top  == calc_degree_256(dividend)
             qr   == U256_gf2_poly_div_loop(dividend, d, mask, top + 1,
                         U256_gf2_poly_div_start(dividend))
             keep == IF deg_divisor < 128
                     THEN U256(0..(deg_divisor - 1), {})
                     ELSE U256(0..127, 0..(deg_divisor - 128 - 1))
         IN IF lead.panic THEN Panic
            ELSE Ok([q |-> qr.q, r |-> U256_bitand(qr.r, keep)])

-----------------------------------------------------------------------------
(* Field element, computation backend, gf2.rs (setup_gf: u8 .. u64) *)

gf2_M(POLY)        == calc_degree(POLY)
gf2_NUM_ELEM(POLY) == 2^gf2_M(POLY)
ZERO == {}
ONE  == {0}

\* GF::new(value): the element holding value.
gf2_new(value) == value

\* validate that is true only above NUM_ELEM.
gf2_validate_above(POLY, a) == Val(a) > gf2_NUM_ELEM(POLY)

\* a.validate(): (self.value as u128) >= Self::NUM_ELEM
gf2_validate(POLY, a) == Val(a) >= gf2_NUM_ELEM(POLY)

gf2_add(a, b) == BitXor(a, b)
gf2_sub(a, b) == BitXor(a, b)

\* gf2 mul that keeps the low half of the product instead of reducing it.
gf2_mul_unreduced(BITS, POLY, a, b) == Ok(Cast(clmul(BITS, a, b), BITS))

gf2_mul(BITS, POLY, a, b) ==
    LET c  == clmul(BITS, a, b)
        qr == gf2_poly_div(2 * BITS, c, Cast(POLY, 2 * BITS))
    IN IF qr.panic THEN Panic ELSE Ok(Cast(qr.value.r, BITS))

\* The body of the while loop of inverse with new_t = new_t ^ quo * nt, the
\* t before the pass forgotten.
gf2_inverse_step_from_new_t(BITS, POLY, s) ==
    LET qr  == gf2_poly_div(128, s.r, s.new_r)
        quo == Cast(qr.value.q, BITS)
        nt  == Cast(s.new_t, BITS)
        p   == gf2_mul(BITS, POLY, quo, nt)
    IN IF p.panic THEN Panic
       ELSE Ok([t |-> s.new_t, new_t |-> BitXor(s.new_t, p.value),
                r |-> s.new_r, new_r |-> qr.value.r])

\* One pass of the body of the while loop of inverse, from the locals s to
\* the locals after it; the pass panics when quo * nt does.
gf2_inverse_step(BITS, POLY, s) ==
    LET qr  == gf2_poly_div(128, s.r, s.new_r)
        quo == Cast(qr.value.q, BITS)
        nt  == Cast(s.new_t, BITS)
        p   == gf2_mul(BITS, POLY, quo, nt)
    IN IF p.panic THEN Panic
       ELSE Ok([t |-> s.new_t, new_t |-> BitXor(s.t, p.value),
                r |-> s.new_r, new_r |-> qr.value.r])

\* The locals of inverse before the first test of the loop.
gf2_inverse_start(POLY, a) == [t |-> {}, new_t |-> {0}, r |-> POLY, new_r |-> a]

RECURSIVE gf2_inverse_loop(_, _, _, _, _, _)
gf2_inverse_loop(BITS, POLY, t, new_t, r, new_r) ==
    IF new_r = {} THEN Ok(Cast(t, BITS))
    ELSE LET s == gf2_inverse_step(BITS, POLY,
                      [t |-> t, new_t |-> new_t, r |-> r, new_r |-> new_r])
         IN IF s.panic THEN Panic
            ELSE gf2_inverse_loop(BITS, POLY, s.value.t, s.value.new_t,
                                  s.value.r, s.value.new_r)

\* gf2 inverse that starts from POLY cast to the storage type.
gf2_inverse_narrow(BITS, POLY, a) ==
    IF a = ZERO THEN Panic
    ELSE gf2_inverse_loop(BITS, POLY, {}, {0}, Cast(POLY, BITS), a)

gf2_inverse(BITS, POLY, a) ==
    IF a = ZERO THEN Panic
    ELSE gf2_inverse_loop(BITS, POLY, {}, {0}, POLY, a)

gf2_div(BITS, POLY, a, b) ==
    LET inv == gf2_inverse(BITS, POLY, b)
    IN IF inv.panic THEN Panic ELSE gf2_mul(BITS, POLY, a, inv.value)

-----------------------------------------------------------------------------
(* Field element, computation backend, gf2.rs (GFu128) *)

\* Mul::mul of GFu128: the product in a U256, reduced by U256 { POLY, 0 }.
GFu128_mul(overflow_checks, POLY, a, b) ==
    LET c  == clmul_u128(overflow_checks, a, b)
        qr == U256_gf2_poly_div(overflow_checks, c.value, U256(POLY, {}))
    IN IF c.panic \/ qr.panic THEN Panic ELSE Ok(qr.value.r.lower)

\* One pass of the body of the while loop of inverse of GFu128.
GFu128_inverse_step(overflow_checks, POLY, s) ==
    LET qr  == gf2_poly_div(128, s.r, s.new_r)
        quo == Cast(qr.value.q, 128)
        nt  == Cast(s.new_t, 128)
        p   == GFu128_mul(overflow_checks, POLY, quo, nt)
    IN IF p.panic THEN Panic
       ELSE Ok([t |-> s.new_t, new_t |-> BitXor(s.t, p.value),
                r |-> s.new_r, new_r |-> qr.value.r])

RECURSIVE GFu128_inverse_loop(_, _, _)
GFu128_inverse_loop(overflow_checks, POLY, s) ==
    IF s.new_r = {} THEN Ok(Cast(s.t, 128))
    ELSE LET n == GFu128_inverse_step(overflow_checks, POLY, s)
         IN IF n.panic THEN Panic
            ELSE GFu128_inverse_loop(overflow_checks, POLY, n.value)

GFu128_inverse(overflow_checks, POLY, a) ==
    IF a = ZERO THEN Panic
    ELSE GFu128_inverse_loop(overflow_checks, POLY, gf2_inverse_start(POLY, a))

-----------------------------------------------------------------------------
(* Field element, table backend, gf2_lut.rs (setup_gf: u8, u16) *)

\* Remainder of isize: the sign of the result follows the dividend.
Rem(x, n) == IF x >= 0 THEN x % n ELSE -((-x) % n)

\* calc_degree of gf2_lut.rs calls itself on x >> 1 while x > 0; s holds the
\* argument of the innermost call and the number of calls waiting for it.
lut_calc_degree_call(s) == [x |-> Shr(s.x, 1), calls |-> s.calls + 1]

RECURSIVE lut_calc_degree_descend(_, _)
\* n nested calls at most from s.
lut_calc_degree_descend(n, s) ==
    IF ~(s.x # {}) \/ n <= 0 THEN s
    ELSE IF n = 1 THEN lut_calc_degree_call(s)
    ELSE lut_calc_degree_descend(n - (n \div 2),
                                 lut_calc_degree_descend(n \div 2, s))

\* calc_degree of gf2_lut.rs, an i8: the innermost call returns -1 and each
\* waiting call adds 1; a u128 takes 128 nested calls at most.
lut_calc_degree(x) ==
    -1 + lut_calc_degree_descend(128, [x |-> x, calls |-> 0]).calls

\* An array [0; 1 << BITS] is the function of the entries written so far;
\* every other entry reads as the initial zero.
Get(arr, i, zero) == IF i \in DOMAIN arr THEN arr[i] ELSE zero
Set(arr, i, v)    == (i :> v) @@ arr

\* The body of the while loop feeding back only a value above feedback_mask.
generate_lut_step_above_mask(BITS, poly, feedback_mask, s) ==
    LET exp1 == Set(s.exp_tbl, s.i, s.value)
        log1 == Set(s.log_tbl, Val(Get(exp1, s.i, {})), s.i)
        leading_1 == Val(s.value) > Val(feedback_mask)
        shifted   == Shl(s.value, 1, BITS)
        value1    == IF leading_1 THEN BitXor(shifted, Cast(poly, BITS))
                                  ELSE shifted
    IN [i |-> s.i + 1, value |-> value1, exp_tbl |-> exp1, log_tbl |-> log1]

\* One pass of the body of the while loop of generate_lut; s holds i, value,
\* exp_tbl and log_tbl.
generate_lut_step(BITS, poly, feedback_mask, s) ==
    LET exp1 == Set(s.exp_tbl, s.i, s.value)
        log1 == Set(s.log_tbl, Val(Get(exp1, s.i, {})), s.i)
        leading_1 == Val(s.value) >= Val(feedback_mask)
        shifted   == Shl(s.value, 1, BITS)
        value1    == IF leading_1 THEN BitXor(shifted, Cast(poly, BITS))
                                  ELSE shifted
    IN [i |-> s.i + 1, value |-> value1, exp_tbl |-> exp1, log_tbl |-> log1]

\* The while loop that also stops once the value is back at 1.
generate_lut_continues_to_cycle(num_elems, s) ==
    s.i < num_elems /\ ~(s.i > 0 /\ s.value = {0})

\* The condition of the while loop: i < num_elems.
generate_lut_continues(num_elems, s) == s.i < num_elems

RECURSIVE generate_lut_loop(_, _, _, _, _, _)
\* n passes of the while loop from loop state s.
generate_lut_loop(BITS, poly, num_elems, feedback_mask, n, s) ==
    IF ~generate_lut_continues(num_elems, s) \/ n <= 0 THEN s
    ELSE IF n = 1 THEN generate_lut_step(BITS, poly, feedback_mask, s)
    ELSE generate_lut_loop(BITS, poly, num_elems, feedback_mask, n - (n \div 2),
             generate_lut_loop(BITS, poly, num_elems, feedback_mask, n \div 2, s))

\* num_elems and feedback_mask of generate_lut, and the state before its
\* while loop: the tables all zero but log_tbl[0] = -1, value = 1, i = 0.
generate_lut_num_elems(poly) == 2^lut_calc_degree(poly) - 1
generate_lut_feedback_mask(BITS, poly) ==
    Shl({0}, lut_calc_degree(poly) - 1, BITS)
generate_lut_start ==
    [i |-> 0, value |-> {0}, exp_tbl |-> <<>>, log_tbl |-> Set(<<>>, 0, -1)]

\* generate_lut_u8, generate_lut_u16: the tables of one (BITS, POLY).
generate_lut(BITS, poly) ==
    LET num_elems == generate_lut_num_elems(poly)
        s == generate_lut_loop(BITS, poly, num_elems,
                 generate_lut_feedback_mask(BITS, poly), num_elems,
                 generate_lut_start)
    IN [exp_tbl |-> s.exp_tbl, log_tbl |-> s.log_tbl]

lut_M(POLY)        == lut_calc_degree(POLY)
lut_NUM_ELEM(POLY) == 2^lut_M(POLY)
DEGREE_MOD(POLY)   == lut_NUM_ELEM(POLY) - 1

\* alpha_pow that does not add DEGREE_MOD to a negative remainder.
alpha_pow_unnormalized(T, POLY, power) ==
    Get(T.exp_tbl, Rem(power, DEGREE_MOD(POLY)), {})

\* The index of alpha_pow after the first power %= DEGREE_MOD only.
alpha_pow_index_once(POLY, power) == Rem(power, DEGREE_MOD(POLY))

\* The index at which alpha_pow reads exp_tbl: power after %=, += and %=.
alpha_pow_index(POLY, power) ==
    LET p1 == Rem(power, DEGREE_MOD(POLY))
        p2 == p1 + DEGREE_MOD(POLY)
        p3 == Rem(p2, DEGREE_MOD(POLY))
    IN p3

\* The operations below take the const TABLES of their instantiation as T.
alpha_pow(T, POLY, power) == Get(T.exp_tbl, alpha_pow_index(POLY, power), {})

log_alpha(T, a) == Get(T.log_tbl, Val(a), 0)

\* inverse that reads exp_tbl at DEGREE_MOD - log_alpha(a) itself.
lut_inverse_unreduced(T, POLY, a) ==
    IF a = ZERO THEN Panic
    ELSE Ok(Get(T.exp_tbl, DEGREE_MOD(POLY) - log_alpha(T, a), {}))

lut_inverse(T, POLY, a) ==
    IF a = ZERO THEN Panic
    ELSE Ok(alpha_pow(T, POLY, DEGREE_MOD(POLY) - log_alpha(T, a)))

\* validate that does not test whether 0 is a root.
lut_validate_no_zero_root(T, POLY) ==
    IF POLY = Bits(\H3) THEN Ok(TRUE)
    ELSE IF Cardinality(POLY) % 2 = 0 THEN Panic
    ELSE IF \E i \in 2..(lut_NUM_ELEM(POLY) - 1) : Get(T.exp_tbl, i, {}) = {0}
         THEN Panic
    ELSE Ok(TRUE)

\* GFuBITS::<POLY>::validate(): panics unless POLY is primitive.
lut_validate(T, POLY) ==
    IF POLY = Bits(\H3) THEN Ok(TRUE)
    ELSE IF 0 \notin POLY THEN Panic
    ELSE IF Cardinality(POLY) % 2 = 0 THEN Panic
    ELSE IF \E i \in 2..(lut_NUM_ELEM(POLY) - 1) : Get(T.exp_tbl, i, {}) = {0}
         THEN Panic
    ELSE Ok(TRUE)

lut_add(a, b) == BitXor(a, b)
lut_sub(a, b) == BitXor(a, b)

\* gf2_lut mul that returns ZERO only when both operands are ZERO.
lut_mul_both_zero(T, POLY, a, b) ==
    IF a = ZERO /\ b = ZERO THEN Ok(ZERO)
    ELSE Ok(alpha_pow(T, POLY, log_alpha(T, a) + log_alpha(T, b)))

lut_mul(T, POLY, a, b) ==
    IF a = ZERO \/ b = ZERO THEN Ok(ZERO)
    ELSE Ok(alpha_pow(T, POLY, log_alpha(T, a) + log_alpha(T, b)))

\* gf2_lut div that tests the dividend before the divisor.
lut_div_dividend_first(T, POLY, a, b) ==
    IF a = ZERO THEN Ok(ZERO)
    ELSE IF b = ZERO THEN Panic
    ELSE Ok(alpha_pow(T, POLY, log_alpha(T, a) - log_alpha(T, b)))

lut_div(T, POLY, a, b) ==
    IF b = ZERO THEN Panic
    ELSE IF a = ZERO THEN Ok(ZERO)
    ELSE Ok(alpha_pow(T, POLY, log_alpha(T, a) - log_alpha(T, b)))

-----------------------------------------------------------------------------
(* A program over one field instantiation *)

VARIABLES
    gf,        \* the instantiation: [mod, BITS, POLY], as in mod::GFuBITS<POLY>
    TABLES,    \* the const TABLES of gf2_lut::GFuBITS<POLY>
    x,         \* the value of the element before the last operation
    a,         \* the value of the element
    b, c,      \* the values of the operand elements
    op,        \* the last operation
    panicked,  \* whether the last operation panicked
    overflow_checks  \* whether the build checks arithmetic overflow

vars == <<gf, TABLES, x, a, b, c, op, panicked, overflow_checks>>

\* Operands are drawn from every element of a field of degree at most
\* ExhaustM, and from the SampleSpan lowest and SampleSpan highest values of
\* a larger field.
ExhaustM   == 4
SampleSpan == 2

\* The polynomials and storage types of field_test! in lib.rs.
TestedTypes ==
    { [BITS |-> 16, POLY |-> Bits(\H3)],  [BITS |-> 16, POLY |-> Bits(\H7)],
      [BITS |-> 16, POLY |-> Bits(\HB)],  [BITS |-> 16, POLY |-> Bits(\H13)],
      [BITS |-> 8,  POLY |-> Bits(\H25)], [BITS |-> 8,  POLY |-> Bits(\H43)],
      [BITS |-> 8,  POLY |-> Bits(\H83)], [BITS |-> 8,  POLY |-> Bits(\H11D)] }

Fields == { [mod |-> m, BITS |-> t.BITS, POLY |-> t.POLY] :
                m \in {"gf2", "gf2_lut"}, t \in TestedTypes }

M(g)        == IF g.mod = "gf2" THEN gf2_M(g.POLY) ELSE lut_M(g.POLY)
NUM_ELEM(g) == IF g.mod = "gf2" THEN gf2_NUM_ELEM(g.POLY)
                                ELSE lut_NUM_ELEM(g.POLY)

\* The values 0 .. NUM_ELEM - 1.
Elements(g) == SUBSET (0..(M(g) - 1))

Operands(g) ==
    IF M(g) <= ExhaustM THEN Elements(g)
    ELSE { v \in Elements(g) : \/ Val(v) < SampleSpan
                               \/ Val(v) >= NUM_ELEM(g) - SampleSpan }

add(g, u, v) == IF g.mod = "gf2" THEN gf2_add(u, v) ELSE lut_add(u, v)
sub(g, u, v) == IF g.mod = "gf2" THEN gf2_sub(u, v) ELSE lut_sub(u, v)
mul(g, u, v) == IF g.mod = "gf2" THEN gf2_mul(g.BITS, g.POLY, u, v)
                                 ELSE lut_mul(TABLES, g.POLY, u, v)
div(g, u, v) == IF g.mod = "gf2" THEN gf2_div(g.BITS, g.POLY, u, v)
                                 ELSE lut_div(TABLES, g.POLY, u, v)
inverse(g, u) == IF g.mod = "gf2" THEN gf2_inverse(g.BITS, g.POLY, u)
                                  ELSE lut_inverse(TABLES, g.POLY, u)

\* The element becomes the outcome r of the operation o, or stays as it was
\* when the operation panics.
Becomes(o, r) ==
    /\ op = "new"
    /\ ~panicked
    /\ op' = o
    /\ x' = a
    /\ panicked' = r.panic
    /\ a' = IF r.panic THEN a ELSE r.value
    /\ UNCHANGED <<gf, TABLES, b, c, overflow_checks>>

Init ==
    /\ gf \in Fields
    /\ TABLES = generate_lut(gf.BITS, gf.POLY)
    /\ a \in Elements(gf)
    /\ x = a
    /\ b \in Operands(gf)
    /\ c = ZERO
    /\ op = "new"
    /\ panicked = FALSE
    /\ overflow_checks \in BOOLEAN

\* b = GF::new(v): the next operand.
New ==
    /\ ~panicked
    /\ op # "new"
    /\ \E v \in Operands(gf) : b' = v
    /\ op' = "new"
    /\ x' = a
    /\ UNCHANGED <<gf, TABLES, a, c, panicked, overflow_checks>>

AddAssign == Becomes("add", Ok(add(gf, a, b)))          \* a += b
SubAssign == Becomes("sub", Ok(sub(gf, a, b)))          \* a -= b
MulAssign == Becomes("mul", mul(gf, a, b))              \* a *= b
DivAssign == Becomes("div", div(gf, a, b))              \* a /= b
Inverse   == Becomes("inverse", inverse(gf, a))         \* a = a.inverse()
DivSelf   == Becomes("div_self", div(gf, a, a))         \* a = a / a

Next ==
    \/ New
    \/ AddAssign
    \/ SubAssign
    \/ MulAssign
    \/ DivAssign
    \/ Inverse
    \/ DivSelf

Spec == Init /\ [][Next]_vars

-----------------------------------------------------------------------------
(* The composite expressions of associative_test and distributive_test *)

InitTriple ==
    /\ gf \in Fields
    /\ TABLES = generate_lut(gf.BITS, gf.POLY)
    /\ a \in Elements(gf)
    /\ x = a
    /\ b \in Operands(gf)
    /\ c \in Operands(gf)
    /\ op = "new"
    /\ panicked = FALSE
    /\ overflow_checks \in BOOLEAN

\* The outcome of u * v where u and v are outcomes themselves.
Times(g, u, v) == IF u.panic \/ v.panic THEN Panic ELSE mul(g, u.value, v.value)
Plus(g, u, v)  == IF u.panic \/ v.panic THEN Panic
                  ELSE Ok(add(g, u.value, v.value))

MulSum == Becomes("mul_sum", mul(gf, a, add(gf, b, c)))          \* a * (b + c)
MulMul == Becomes("mul_mul", Times(gf, mul(gf, a, b), Ok(c)))    \* (a * b) * c

NextTriple ==
    \/ MulSum
    \/ MulMul

SpecTriple == InitTriple /\ [][NextTriple]_vars

-----------------------------------------------------------------------------
(* The carry-less product and the polynomial division of one integer type *)

\* Operands have at most MaxWeight bits set, at positions within EdgeBits of
\* the lowest bit, of the middle of the type and of the highest bit.
EdgeBits  == 2
MaxWeight == 2

\* u8 .. u128 by their width, and U256 as 256.
PolyTypes == { [mod |-> "clmul", BITS |-> w] : w \in {8, 16, 32, 64, 128, 256} }

Positions(BITS) ==
    { i \in 0..(BITS - 1) : \/ i < EdgeBits
                            \/ i >= BITS - EdgeBits
                            \/ /\ i >= BITS \div 2 - EdgeBits
                               /\ i < BITS \div 2 + EdgeBits }

\* A 256-bit integer as a U256, and back.
Wide(v) == U256(Cast(v, 128), Shr(v, 128))
Flat(u) == u.lower \cup { i + 128 : i \in u.upper }

PolyOperands(g) ==
    LET ints == { v \in SUBSET Positions(g.BITS) : Cardinality(v) <= MaxWeight }
                    \cup { Bits(\HF) }
    IN IF g.BITS = 256 THEN { Wide(v) : v \in ints } ELSE ints

InitPoly ==
    /\ gf \in PolyTypes
    /\ TABLES = <<>>
    /\ a \in PolyOperands(gf)
    /\ x = a
    /\ b \in PolyOperands(gf)
    /\ c = ZERO
    /\ op = "new"
    /\ panicked = FALSE
    /\ overflow_checks \in BOOLEAN

\* a = T::clmul(a, b) for T in u8 .. u64
Clmul ==
    /\ gf.BITS \in {8, 16, 32, 64}
    /\ Becomes("clmul", Ok(clmul(gf.BITS, a, b)))

\* a = u128::clmul(a, b)
ClmulU128 ==
    /\ gf.BITS = 128
    /\ Becomes("clmul", clmul_u128(overflow_checks, a, b))

\* a = T::gf2_poly_div(a, b) for T in u8 .. u128
PolyDiv ==
    /\ gf.BITS \in {8, 16, 32, 64, 128}
    /\ Becomes("poly_div", gf2_poly_div(gf.BITS, a, b))

\* a = U256::gf2_poly_div(a, b)
PolyDivU256 ==
    /\ gf.BITS = 256
    /\ Becomes("poly_div", U256_gf2_poly_div(overflow_checks, a, b))

NextPoly ==
    \/ Clmul
    \/ ClmulU128
    \/ PolyDiv
    \/ PolyDivU256

SpecPoly == InitPoly /\ [][NextPoly]_vars

-----------------------------------------------------------------------------
(* The two degree functions, lib.rs and gf2_lut.rs *)

\* The u128 values 0, 1 << k for every k, u128::MAX and the operands of u128.
DegreeInputs ==
    { {} } \cup { {k} : k \in 0..127 } \cup { 0..127 }
        \cup PolyOperands([mod |-> "clmul", BITS |-> 128])

InitDegree ==
    /\ gf = [mod |-> "calc_degree", BITS |-> 128]
    /\ TABLES = <<>>
    /\ a \in DegreeInputs
    /\ x = a
    /\ b = ZERO
    /\ c = ZERO
    /\ op = "new"
    /\ panicked = FALSE
    /\ overflow_checks \in BOOLEAN

\* a = calc_degree(a) of lib.rs
CalcDegree == Becomes("calc_degree", Ok(calc_degree(a)))

\* a = calc_degree(a) of gf2_lut.rs
CalcDegreeLut == Becomes("lut_calc_degree", Ok(lut_calc_degree(a)))

NextDegree ==
    \/ CalcDegree
    \/ CalcDegreeLut

SpecDegree == InitDegree /\ [][NextDegree]_vars

-----------------------------------------------------------------------------
(* The table backend of one polynomial, primitive or not *)

\* Every polynomial of degree 1 .. MaxDegree is an instantiation, with the
\* polynomials of field_test! and check_not_primitive!.
MaxDegree == 6

LutPrograms ==
    { [mod |-> "gf2_lut", BITS |-> w, POLY |-> Bits(p)] :
          w \in {8, 16}, p \in 2..(2^(MaxDegree + 1) - 1) }
    \cup { [mod |-> "gf2_lut", BITS |-> 8, POLY |-> Bits(p)] :
               p \in {\H83, \H11D, \H163} }
    \cup { [mod |-> "gf2_lut", BITS |-> 16, POLY |-> Bits(p)] :
               p \in {\H83, \H11D, \H163, \H203} }

\* While op = "generate_lut", TABLES is the state of the loop of generate_lut.
InitLut ==
    /\ gf \in LutPrograms
    /\ TABLES = generate_lut_start
    /\ a = ZERO
    /\ x = ZERO
    /\ b = ZERO
    /\ c = ZERO
    /\ op = "generate_lut"
    /\ panicked = FALSE
    /\ overflow_checks \in BOOLEAN

\* One pass of the while loop of generate_lut.
GenerateLutStep ==
    /\ op = "generate_lut"
    /\ generate_lut_continues(generate_lut_num_elems(gf.POLY), TABLES)
    /\ TABLES' = generate_lut_step(gf.BITS, gf.POLY,
                     generate_lut_feedback_mask(gf.BITS, gf.POLY), TABLES)
    /\ UNCHANGED <<gf, x, a, b, c, op, panicked, overflow_checks>>

\* generate_lut returns the tables.
GenerateLutReturn ==
    /\ op = "generate_lut"
    /\ ~generate_lut_continues(generate_lut_num_elems(gf.POLY), TABLES)
    /\ op' = "new"
    /\ UNCHANGED <<gf, TABLES, x, a, b, c, panicked, overflow_checks>>

\* GF::validate()
Validate ==
    /\ op = "new"
    /\ op' = "validate"
    /\ panicked' = lut_validate(TABLES, gf.POLY).panic
    /\ UNCHANGED <<gf, TABLES, x, a, b, c, overflow_checks>>

NextLut ==
    \/ GenerateLutStep
    \/ GenerateLutReturn
    \/ Validate

SpecLut == InitLut /\ [][NextLut]_vars

-----------------------------------------------------------------------------
(* Elements of the computation backend made from raw integers *)

\* The raw integers of the storage type: the operands of the type and the
\* SampleSpan values below and above NUM_ELEM.
RawValues(g) ==
    PolyOperands([mod |-> "clmul", BITS |-> g.BITS])
    \cup { Bits(n) : n \in { m \in (NUM_ELEM(g) - SampleSpan)
                                       ..(NUM_ELEM(g) + SampleSpan - 1) :
                                 m < 2^g.BITS } }

\* b is the raw integer, c the value returned by validate.
InitRaw ==
    /\ gf \in { g \in Fields : g.mod = "gf2" }
    /\ TABLES = <<>>
    /\ a = ZERO
    /\ x = ZERO
    /\ b \in RawValues(gf)
    /\ c = FALSE
    /\ op = "raw"
    /\ panicked = FALSE
    /\ overflow_checks \in BOOLEAN

\* a = GF::new(b)
NewRaw ==
    /\ op = "raw"
    /\ a' = gf2_new(b)
    /\ op' = "new"
    /\ UNCHANGED <<gf, TABLES, x, b, c, panicked, overflow_checks>>

\* c = a.validate()
ValidateElement ==
    /\ op = "new"
    /\ c' = gf2_validate(gf.POLY, a)
    /\ op' = "validate_element"
    /\ UNCHANGED <<gf, TABLES, x, a, b, panicked, overflow_checks>>

NextRaw ==
    \/ NewRaw
    \/ ValidateElement

SpecRaw == InitRaw /\ [][NextRaw]_vars

-----------------------------------------------------------------------------
(* U256 values, their shifts and their constructor *)

\* The shift amounts within EdgeBits of 0, 128 and 256, and 64 and 192.
Shifts ==
    { n \in 0..(256 + EdgeBits) : \/ n <= EdgeBits
                                  \/ n >= 128 - EdgeBits /\ n <= 128 + EdgeBits
                                  \/ n >= 256 - EdgeBits
                                  \/ n \in {64, 192} }

\* a is a U256 to shift (BITS = 256) or a u128 to widen (BITS = 128), c the
\* shift amount.
InitWide ==
    /\ gf \in { [mod |-> "clmul", BITS |-> w] : w \in {128, 256} }
    /\ TABLES = <<>>
    /\ a \in PolyOperands(gf)
    /\ x = a
    /\ b = ZERO
    /\ c \in Shifts
    /\ op = "new"
    /\ panicked = FALSE
    /\ overflow_checks \in BOOLEAN

\* a = a << c
ShlU256 ==
    /\ gf.BITS = 256
    /\ Becomes("shl", Ok(U256_shl(a, c)))

\* a = a >> c
ShrU256 ==
    /\ gf.BITS = 256
    /\ Becomes("shr", Ok(U256_shr(a, c)))

\* a = U256::new(a, c)
NewU256 ==
    /\ gf.BITS = 128
    /\ Becomes("U256_new", U256_new(overflow_checks, a, c))

NextWide ==
    \/ ShlU256
    \/ ShrU256
    \/ NewU256

SpecWide == InitWide /\ [][NextWide]_vars

-----------------------------------------------------------------------------
(* The loops of inverse, of gf2_poly_div and of generate_lut, pass by pass *)

\* The operands of a loop run pass by pass have their bits set within
\* StepBits of the lowest and of the highest bit of the type, or are 0xF.
StepBits == 1

StepOperands(g) ==
    LET ints == SUBSET { i \in 0..(g.BITS - 1) : \/ i < StepBits
                                                 \/ i >= g.BITS - StepBits }
                    \cup { Bits(\HF) }
    IN IF g.BITS = 256 THEN { Wide(v) : v \in ints } ELSE ints

\* The gf2 instantiations of field_test!, GFu16 of degree 16, and GFu32,
\* GFu64 and GFu128 of a small and of a large degree.
InverseFields ==
    { g \in Fields : g.mod = "gf2" }
    \cup { [mod |-> "gf2", BITS |-> 16,  POLY |-> {0, 2, 3, 5, 16}],
           [mod |-> "gf2", BITS |-> 32,  POLY |-> Bits(\H13)],
           [mod |-> "gf2", BITS |-> 64,  POLY |-> Bits(\H11D)],
           [mod |-> "gf2", BITS |-> 128, POLY |-> Bits(\H13)],
           [mod |-> "gf2", BITS |-> 128, POLY |-> {0, 1, 127}] }

\* Every value of u8 and every element of a field of degree at most
\* ExhaustM; of a wider type or a larger field the values at the edges of
\* the type, in the range of the field or not, and the elements at the
\* edges of the field.
InverseInputs(g) ==
    (IF g.BITS = 8 THEN SUBSET (0..7) ELSE {})
    \cup (IF M(g) <= ExhaustM THEN Elements(g) ELSE {})
    \cup StepOperands(g)
    \cup SUBSET { i \in 0..(M(g) - 1) : i < StepBits \/ i >= M(g) - StepBits }

\* x holds the locals of the running function: its argument at the call,
\* and while op = "inverse" the t, new_t, r and new_r of inverse at the test
\* of its while loop; c is the number of passes made.
InitInverse ==
    /\ gf \in InverseFields
    /\ TABLES = <<>>
    /\ a \in InverseInputs(gf)
    /\ x = [self |-> a]
    /\ b = ZERO
    /\ c = 0
    /\ op = "inverse_call"
    /\ panicked = FALSE
    /\ overflow_checks \in BOOLEAN

\* a.inverse() up to its loop: the panic on zero, or the locals.
InverseEnter ==
    /\ op = "inverse_call"
    /\ IF a = ZERO
       THEN /\ op' = "inverse_return"
            /\ panicked' = TRUE
            /\ x' = x
       ELSE /\ op' = "inverse"
            /\ panicked' = FALSE
            /\ x' = gf2_inverse_start(gf.POLY, a)
    /\ UNCHANGED <<gf, TABLES, a, b, c, overflow_checks>>

\* One pass of the while loop of inverse.
InverseStep ==
    /\ op = "inverse"
    /\ x.new_r # {}
    /\ LET s == IF gf.BITS = 128
                THEN GFu128_inverse_step(overflow_checks, gf.POLY, x)
                ELSE gf2_inverse_step(gf.BITS, gf.POLY, x)
       IN /\ panicked' = s.panic
          /\ op' = IF s.panic THEN "inverse_return" ELSE "inverse"
          /\ x' = IF s.panic THEN x ELSE s.value
    /\ c' = c + 1
    /\ UNCHANGED <<gf, TABLES, a, b, overflow_checks>>

\* b = a.inverse(): the loop is left and t returned in the storage type.
InverseReturn ==
    /\ op = "inverse"
    /\ ~(x.new_r # {})
    /\ b' = Cast(x.t, gf.BITS)
    /\ op' = "inverse_return"
    /\ UNCHANGED <<gf, TABLES, x, a, c, panicked, overflow_checks>>

\* x holds the arguments of gf2_poly_div(a, b) at the call and, while
\* op = "poly_div", its locals cur_deg, q and r at the head of its for
\* loop; c is the number of passes made.
InitDivide ==
    /\ gf \in PolyTypes
    /\ TABLES = <<>>
    /\ a \in StepOperands(gf)
    /\ b \in StepOperands(gf)
    /\ x = [dividend |-> a, divisor |-> b]
    /\ c = 0
    /\ op = "poly_div_call"
    /\ panicked = FALSE
    /\ overflow_checks \in BOOLEAN

\* T::gf2_poly_div(a, b) up to its loop, for T in u8 .. u128.
PolyDivEnter ==
    /\ op = "poly_div_call"
    /\ gf.BITS \in {8, 16, 32, 64, 128}
    /\ IF b = {}
       THEN /\ op' = "poly_div_return"
            /\ panicked' = TRUE
            /\ x' = x
       ELSE IF b = {0}
       THEN /\ op' = "poly_div_return"
            /\ panicked' = FALSE
            /\ x' = [q |-> a, r |-> {}]
       ELSE /\ op' = "poly_div"
            /\ panicked' = FALSE
            /\ x' = gf2_poly_div_start(gf.BITS, a)
    /\ UNCHANGED <<gf, TABLES, a, b, c, overflow_checks>>

\* One pass of the for loop of T::gf2_poly_div.
PolyDivStep ==
    /\ op = "poly_div"
    /\ gf.BITS \in {8, 16, 32, 64, 128}
    /\ x.cur_deg >= 0
    /\ LET deg_divisor == calc_degree(b)
           d    == deg_divisor - 1
           mask == BitAnd(b, BitNot(Shl({0}, deg_divisor, gf.BITS), gf.BITS))
       IN x' = gf2_poly_div_step(gf.BITS, a, d, mask, x)
    /\ c' = c + 1
    /\ UNCHANGED <<gf, TABLES, a, b, op, panicked, overflow_checks>>

\* T::gf2_poly_div leaves the loop, masks r and returns (q, r).
PolyDivReturn ==
    /\ op = "poly_div"
    /\ gf.BITS \in {8, 16, 32, 64, 128}
    /\ ~(x.cur_deg >= 0)
    /\ x' = [q |-> x.q, r |-> BitAnd(x.r, 0..(calc_degree(b) - 1))]
    /\ op' = "poly_div_return"
    /\ UNCHANGED <<gf, TABLES, a, b, c, panicked, overflow_checks>>

\* U256::gf2_poly_div(a, b) up to its loop.
PolyDivU256Enter ==
    /\ op = "poly_div_call"
    /\ gf.BITS = 256
    /\ IF b = U256({}, {})
       THEN /\ op' = "poly_div_return"
            /\ panicked' = TRUE
            /\ x' = x
       ELSE IF b = U256({0}, {})
       THEN /\ op' = "poly_div_return"
            /\ panicked' = FALSE
            /\ x' = [q |-> a, r |-> U256({}, {})]
       ELSE IF U256_new(overflow_checks, {0}, calc_degree_256(b)).panic
       THEN /\ op' = "poly_div_return"
            /\ panicked' = TRUE
            /\ x' = x
       ELSE /\ op' = "poly_div"
            /\ panicked' = FALSE
            /\ x' = U256_gf2_poly_div_start(a)
    /\ UNCHANGED <<gf, TABLES, a, b, c, overflow_checks>>

\* One pass of the for loop of U256::gf2_poly_div.
PolyDivU256Step ==
    /\ op = "poly_div"
    /\ gf.BITS = 256
    /\ x.cur_deg >= 0
    /\ LET deg_divisor == calc_degree_256(b)
           d    == deg_divisor - 1
           lead == U256_new(overflow_checks, {0}, deg_divisor)
           mask == U256_bitand(b, U256_not(lead.value))
       IN x' = U256_gf2_poly_div_step(a, d, mask, x)
    /\ c' = c + 1
    /\ UNCHANGED <<gf, TABLES, a, b, op, panicked, overflow_checks>>

\* U256::gf2_poly_div leaves the loop, masks r and returns (q, r).
PolyDivU256Return ==
    /\ op = "poly_div"
    /\ gf.BITS = 256
    /\ ~(x.cur_deg >= 0)
    /\ LET deg_divisor == calc_degree_256(b)
           keep == IF deg_divisor < 128
                   THEN U256(0..(deg_divisor - 1), {})
                   ELSE U256(0..127, 0..(deg_divisor - 128 - 1))
       IN x' = [q |-> x.q, r |-> U256_bitand(x.r, keep)]
    /\ op' = "poly_div_return"
    /\ UNCHANGED <<gf, TABLES, a, b, c, panicked, overflow_checks>>

\* A call of inverse, a call of gf2_poly_div, or the construction of the
\* tables of an instantiation of the table backend.
InitLoops ==
    \/ InitInverse
    \/ InitDivide
    \/ InitLut

NextLoops ==
    \/ InverseEnter
    \/ InverseStep
    \/ InverseReturn
    \/ PolyDivEnter
    \/ PolyDivStep
    \/ PolyDivReturn
    \/ PolyDivU256Enter
    \/ PolyDivU256Step
    \/ PolyDivU256Return
    \/ GenerateLutStep
    \/ GenerateLutReturn

SpecLoops == InitLoops /\ [][NextLoops]_vars

\* The steps of a call up to its loop, and the steps at the head of a loop:
\* a pass or the return.
Entries == InverseEnter \/ PolyDivEnter \/ PolyDivU256Enter
LoopSteps ==
    \/ InverseStep
    \/ InverseReturn
    \/ PolyDivStep
    \/ PolyDivReturn
    \/ PolyDivU256Step
    \/ PolyDivU256Return
    \/ GenerateLutStep
    \/ GenerateLutReturn

\* The positions at the head of a loop, where the loop test enables either
\* a pass or the return, and the positions at which the call has a step to
\* make.
AtLoopHead == op \in {"inverse", "poly_div", "generate_lut"}
Running    == AtLoopHead \/ op \in {"inverse_call", "poly_div_call"}

\* The code runs on with nothing to wait for, so a step that can be made is
\* made: weak fairness of the entries and of the steps at a loop head.  The
\* latter is WF_vars(LoopSteps) with ENABLED <<LoopSteps>>_vars, whose
\* evaluation would run the body of the loop, written out as AtLoopHead.
SpecLoopsFair ==
    /\ SpecLoops
    /\ WF_vars(Entries)
    /\ []<>(~AtLoopHead) \/ []<><<LoopSteps>>_vars

-----------------------------------------------------------------------------
(* Properties of the field operations *)

\* C1: for every element a other than ZERO, a * a.inverse() is ONE and
\* a / a is ONE.
InverseIsReciprocal ==
    /\ (op = "inverse" /\ x # ZERO) => ~panicked /\ mul(gf, x, a) = Ok(ONE)
    /\ (op = "div_self" /\ x # ZERO) => ~panicked /\ a = ONE

\* The inverse of 0x80 was taken in gf2::GFu8<0x11D>, where M = W.
InverseTakenFullWidth ==
    /\ gf = [mod |-> "gf2", BITS |-> 8, POLY |-> Bits(\H11D)]
    /\ op = "inverse"
    /\ x = {7}
    /\ ~panicked

\* C2: the two backends of one (W, P) return the same product, the same
\* quotient by an element other than ZERO and the same inverse of an element
\* other than ZERO.
BackendsAgree ==
    /\ op = "mul" =>
          /\ Ok(a) = gf2_mul(gf.BITS, gf.POLY, x, b)
          /\ Ok(a) = lut_mul(TABLES, gf.POLY, x, b)
    /\ (op = "div" /\ b # ZERO) =>
          /\ ~panicked
          /\ Ok(a) = gf2_div(gf.BITS, gf.POLY, x, b)
          /\ Ok(a) = lut_div(TABLES, gf.POLY, x, b)
    /\ (op = "inverse" /\ x # ZERO) =>
          /\ ~panicked
          /\ Ok(a) = gf2_inverse(gf.BITS, gf.POLY, x)
          /\ Ok(a) = lut_inverse(TABLES, gf.POLY, x)

\* 0x02 was divided by 0xFE in the table backend of 0x11D: the difference of
\* the logarithms is negative.
DividedInTableBackend ==
    /\ gf = [mod |-> "gf2_lut", BITS |-> 8, POLY |-> Bits(\H11D)]
    /\ op = "div"
    /\ x = {1}
    /\ b = 1..7
    /\ ~panicked

\* C3: a * (b + c) = a * b + a * c.
Distributive ==
    op = "mul_sum" =>
        /\ ~panicked
        /\ Ok(a) = Plus(gf, mul(gf, x, b), mul(gf, x, c))

\* A product by a sum of two different elements, none of them ZERO or ONE,
\* was taken.
MulSumTaken ==
    /\ op = "mul_sum"
    /\ b # c
    /\ {x, b, c} \cap {ZERO, ONE} = {}
    /\ M(gf) = gf.BITS

\* C4: (a * b) * c = a * (b * c).
Associative ==
    op = "mul_mul" =>
        /\ ~panicked
        /\ Ok(a) = Times(gf, Ok(x), mul(gf, b, c))

\* A product of three elements, none of them ZERO or ONE, was taken in the
\* table backend.
MulMulTaken ==
    /\ op = "mul_mul"
    /\ gf.mod = "gf2_lut"
    /\ {x, b, c} \cap {ZERO, ONE} = {}

\* C5: a * b = b * a.
Commutative ==
    op = "mul" => ~panicked /\ Ok(a) = mul(gf, b, x)

\* A product of two different elements, none of them ZERO or ONE, was taken
\* in the computation backend.
MulTaken ==
    /\ op = "mul"
    /\ gf.mod = "gf2"
    /\ x # b
    /\ {x, b} \cap {ZERO, ONE} = {}

\* C6: every element produced by add, sub, mul, div by an element other than
\* ZERO and inverse of an element other than ZERO, from elements below
\* NUM_ELEM, is below NUM_ELEM.
InRange ==
    /\ Val(a) < NUM_ELEM(gf)
    /\ Val(x) < NUM_ELEM(gf)
    /\ Val(b) < NUM_ELEM(gf)

\* A quotient other than the dividend was produced in a field with M < W.
QuotientProduced ==
    /\ op = "div"
    /\ ~panicked
    /\ a # x
    /\ M(gf) < gf.BITS

\* C7: division by ZERO and the inverse of ZERO panic, whatever the dividend,
\* and leave no value.
DivideByZeroPanics ==
    (\/ op = "div" /\ b = ZERO
     \/ op = "div_self" /\ x = ZERO
     \/ op = "inverse" /\ x = ZERO) => panicked /\ a = x

\* ZERO was divided by ZERO in the table backend.
ZeroDividedByZero ==
    /\ op = "div"
    /\ gf.mod = "gf2_lut"
    /\ x = ZERO
    /\ b = ZERO
    /\ panicked

-----------------------------------------------------------------------------
(* Properties of the carry-less product and of the polynomial division *)

\* The degree of a polynomial: the position of its highest set bit, -1 for 0.
Degree(u) == IF u = {} THEN -1 ELSE CHOOSE i \in u : \A j \in u : j <= i

\* The polynomial product over GF(2): bit k is the parity of the number of
\* set bits i of v with bit k - i of u set.
Convolution(u, v) ==
    { k \in 0..(Degree(u) + Degree(v)) :
          Cardinality({ i \in v : (k - i) \in u }) % 2 = 1 }

\* C8: clmul(a, b) is, in twice the width of its operands, the XOR over the
\* set bits i of b of a shifted left by i; 8-bit clmul(0xF, 0x81) is 0x078F
\* and 16-bit clmul(0xF, 0x8001) is 0x7800F.
ClmulIsXorOfShifts ==
    op = "clmul" =>
        /\ ~panicked
        /\ (IF gf.BITS = 128 THEN Flat(a) ELSE a) = Convolution(x, b)
        /\ (gf.BITS = 8 /\ x = Bits(\HF) /\ b = Bits(\H81))
               => a = Bits(\H078F)
        /\ (gf.BITS = 16 /\ x = Bits(\HF) /\ b = Bits(\H8001))
               => a = Bits(\H7800F)

\* The 16-bit product of 0xF and 0x8001 was taken.
ClmulExampleTaken ==
    /\ op = "clmul"
    /\ gf.BITS = 16
    /\ x = Bits(\HF)
    /\ b = Bits(\H8001)
    /\ a # {}

\* C9: gf2_poly_div of u8 .. u128 panics on the divisor 0 and otherwise
\* returns (q, r) with dividend = q times divisor XOR r as polynomials and
\* the degree of r below the degree of the divisor; on the divisor 1 it
\* returns (dividend, 0).
PolyDivCorrect ==
    (op = "poly_div" /\ gf.BITS # 256) =>
        /\ b = {} => panicked
        /\ b # {} =>
              /\ ~panicked
              /\ x = BitXor(Convolution(a.q, b), a.r)
              /\ Degree(a.r) < Degree(b)
        /\ b = {0} => ~panicked /\ a = [q |-> x, r |-> {}]

\* A u128 was divided by a divisor of degree two at least, with a quotient of
\* more than one term and a remainder other than 0.
PolyDivTaken ==
    /\ op = "poly_div"
    /\ gf.BITS = 128
    /\ ~panicked
    /\ Degree(b) >= 2
    /\ Cardinality(a.q) >= 2
    /\ a.r # {}

\* C10: U256::gf2_poly_div returns, for every divisor other than 0, those of
\* a degree above 128 included, (q, r) with dividend = q times divisor XOR r
\* as polynomials and the degree of r below the degree of the divisor.
WidePolyDivCorrect ==
    (op = "poly_div" /\ gf.BITS = 256 /\ b # U256({}, {})) =>
        /\ ~panicked
        /\ Flat(x) = BitXor(Convolution(Flat(a.q), Flat(b)), Flat(a.r))
        /\ Degree(Flat(a.r)) < Degree(Flat(b))

-----------------------------------------------------------------------------
(* Properties of the degree functions *)

\* C11: calc_degree(0) is -1 and calc_degree(1 << k) is k; for x other than
\* 0 the result is the position of the highest set bit; calc_degree of lib.rs
\* and calc_degree of gf2_lut.rs return the same value.
DegreeIsHighestBit ==
    /\ op = "calc_degree" =>
          /\ ~panicked
          /\ x = {} => a = -1
          /\ \A k \in 0..127 : x = {k} => a = k
          /\ x # {} => a \in x /\ \A j \in x : j <= a
          /\ a = lut_calc_degree(x)
    /\ op = "lut_calc_degree" =>
          /\ ~panicked
          /\ x = {} => a = -1
          /\ \A k \in 0..127 : x = {k} => a = k
          /\ x # {} => a \in x /\ \A j \in x : j <= a
          /\ a = calc_degree(x)

\* The degree of 1 << 127 was computed by the recursive function.
DegreeOfTopBitTaken ==
    /\ op = "lut_calc_degree"
    /\ x = {127}
    /\ a = 127

-----------------------------------------------------------------------------
(* Properties of the tables and of their validation *)

\* The first index above 0 at which exp_tbl holds 1 lies below NUM_ELEM - 1:
\* the sequence of generate_lut is back at 1 before index NUM_ELEM - 1.
CyclesEarly(T, POLY) ==
    \E i \in 1..(lut_NUM_ELEM(POLY) - 2) : Get(T.exp_tbl, i, {}) = {0}

\* C12: validate rejects every polynomial that is even, every polynomial
\* with an even number of set bits and every polynomial whose sequence is
\* back at 1 before index NUM_ELEM - 1.
ValidateRejects ==
    (/\ op = "validate"
     /\ \/ 0 \notin gf.POLY
        \/ Cardinality(gf.POLY) % 2 = 0
        \/ CyclesEarly(TABLES, gf.POLY)) => panicked

\* C12, amended: the same of every polynomial other than 0x3; 0x4, 0x5, 0x15
\* and 0x203 are rejected.
ValidateRejectsButX1 ==
    op = "validate" =>
        /\ (/\ gf.POLY # Bits(\H3)
            /\ \/ 0 \notin gf.POLY
               \/ Cardinality(gf.POLY) % 2 = 0
               \/ CyclesEarly(TABLES, gf.POLY)) => panicked
        /\ gf.POLY \in {Bits(\H4), Bits(\H5), Bits(\H15), Bits(\H203)}
               => panicked

\* 0x15 of an odd value and an odd number of set bits was rejected.
NotPrimitiveRejected ==
    /\ op = "validate"
    /\ gf.POLY = Bits(\H15)
    /\ panicked

\* P of degree M is primitive: x^i + 1 is a multiple of P for i = 2^M - 1
\* and for no smaller i above 0.  Stated for M up to 8.
Multiple(P, u) ==
    U256_gf2_poly_div(overflow_checks, Wide(u), Wide(P)).value.r = U256({}, {})
Primitive(P) ==
    /\ Degree(P) \in 1..8
    /\ Multiple(P, BitXor({2^Degree(P) - 1}, {0}))
    /\ \A i \in 1..(2^Degree(P) - 2) : ~Multiple(P, {0, i})

\* C13: validation passes for every primitive polynomial, 0x3, 0x7, 0xB,
\* 0x13, 0x25, 0x43, 0x83, 0x11D and 0x163 among them, and then log_tbl[0]
\* is -1, log_tbl maps the values 1 .. NUM_ELEM - 1 one to one onto
\* 0 .. NUM_ELEM - 2, exp_tbl[log_tbl[v]] = v and log_tbl[exp_tbl[i]] = i.
PrimitiveTablesBijective ==
    op = "validate" =>
        LET N   == lut_NUM_ELEM(gf.POLY)
            E(i) == Get(TABLES.exp_tbl, i, {})
            L(v) == Get(TABLES.log_tbl, v, 0)
        IN /\ gf.POLY \in { Bits(\H3), Bits(\H7), Bits(\HB), Bits(\H13),
                            Bits(\H25), Bits(\H43), Bits(\H83), Bits(\H11D),
                            Bits(\H163) } => ~panicked
           /\ Primitive(gf.POLY) => ~panicked
           /\ ~panicked =>
                 /\ L(0) = -1
                 /\ { L(v) : v \in 1..(N - 1) } = 0..(N - 2)
                 /\ \A v \in 1..(N - 1) : E(L(v)) = Bits(v)
                 /\ \A i \in 0..(N - 2) : L(Val(E(i))) = i

\* 0x163, of the degree of its storage type u8, passed validation.
FullWidthPolynomialValidated ==
    /\ op = "validate"
    /\ gf = [mod |-> "gf2_lut", BITS |-> 8, POLY |-> Bits(\H163)]
    /\ ~panicked

-----------------------------------------------------------------------------
(* Properties of element construction *)

\* C14: new(raw) stores raw unchanged, whatever its value, and validate is
\* true exactly of a value of NUM_ELEM or more, one with a bit set at
\* position M or above: of no value when M is the width of the storage type.
NewStoresRawValidateOutOfRange ==
    /\ op \in {"new", "validate_element"} => a = b /\ ~panicked
    /\ op = "validate_element" =>
          /\ c = (\E i \in a : i >= Degree(gf.POLY))
          /\ Degree(gf.POLY) = gf.BITS => c = FALSE

\* validate returned true of the value NUM_ELEM itself.
ValidatedOutOfRange ==
    /\ op = "validate_element"
    /\ a = {Degree(gf.POLY)}
    /\ c = TRUE

-----------------------------------------------------------------------------
(* Properties of the table backend *)

\* C15: the inverse of an element a other than ZERO, ONE included, is the
\* entry of exp_tbl at index (NUM_ELEM - 1) - log_tbl[a].
InverseReadsAtComplement ==
    (op = "inverse" /\ gf.mod = "gf2_lut" /\ x # ZERO) =>
        /\ ~panicked
        /\ a = Get(TABLES.exp_tbl,
                   (lut_NUM_ELEM(gf.POLY) - 1) - Get(TABLES.log_tbl, Val(x), 0),
                   {})

\* C15, amended: the index is (NUM_ELEM - 1) - log_tbl[a] reduced modulo
\* NUM_ELEM - 1: (NUM_ELEM - 1) - log_tbl[a] for a other than ONE and 0 for
\* ONE, whose inverse is ONE.
InverseReadsAtReducedComplement ==
    (op = "inverse" /\ gf.mod = "gf2_lut" /\ x # ZERO) =>
        LET N == lut_NUM_ELEM(gf.POLY)
            l == Get(TABLES.log_tbl, Val(x), 0)
        IN /\ ~panicked
           /\ a = Get(TABLES.exp_tbl, ((N - 1) - l) % (N - 1), {})
           /\ x # ONE => a = Get(TABLES.exp_tbl, (N - 1) - l, {})
           /\ x = ONE => a = Get(TABLES.exp_tbl, 0, {}) /\ a = ONE

\* The inverse of ONE was taken in the table backend.
InverseOfOneTaken ==
    /\ op = "inverse"
    /\ gf.mod = "gf2_lut"
    /\ x = ONE
    /\ a = ONE
    /\ ~panicked

\* C16: in the table backend a * b is ZERO when a or b is ZERO and otherwise
\* exp_tbl[(log_tbl[a] + log_tbl[b]) mod (NUM_ELEM - 1)]; a / b, b other than
\* ZERO, is ZERO when a is ZERO and otherwise
\* exp_tbl[(log_tbl[a] - log_tbl[b]) mod (NUM_ELEM - 1)]; the index alpha_pow
\* reads at is that residue, in 0 .. NUM_ELEM - 2.
TableProductAndQuotient ==
    gf.mod = "gf2_lut" =>
        LET N    == lut_NUM_ELEM(gf.POLY)
            E(i) == Get(TABLES.exp_tbl, i, {})
            L(v) == Get(TABLES.log_tbl, Val(v), 0)
            sum  == L(x) + L(b)
            diff == L(x) - L(b)
        IN /\ op = "mul" =>
                 /\ ~panicked
                 /\ a = IF x = ZERO \/ b = ZERO THEN ZERO
                        ELSE E(sum % (N - 1))
                 /\ alpha_pow_index(gf.POLY, sum) = sum % (N - 1)
                 /\ alpha_pow_index(gf.POLY, sum) \in 0..(N - 2)
           /\ (op = "div" /\ b # ZERO) =>
                 /\ ~panicked
                 /\ a = IF x = ZERO THEN ZERO ELSE E(diff % (N - 1))
                 /\ alpha_pow_index(gf.POLY, diff) = diff % (N - 1)
                 /\ alpha_pow_index(gf.POLY, diff) \in 0..(N - 2)

\* An element was divided by one of a greater logarithm in a field with
\* M below the width of its storage type.
NegativeLogDifferenceTaken ==
    /\ op = "div"
    /\ gf.mod = "gf2_lut"
    /\ gf.BITS = 16
    /\ x # ZERO
    /\ b # ZERO
    /\ Get(TABLES.log_tbl, Val(x), 0) < Get(TABLES.log_tbl, Val(b), 0)
    /\ ~panicked

-----------------------------------------------------------------------------
(* Properties of U256 *)

\* C17: x << n is x * 2^n modulo 2^256 and x >> n is x / 2^n rounded down,
\* for every n >= 0: the lower half of x << n and the upper half of x >> n
\* are 0 for n in 128 .. 255, and the result is 0 for n of 256 or more.
WideShiftsAreShifts ==
    /\ op = "shl" =>
          /\ ~panicked
          /\ Flat(a) = { i + c : i \in { j \in Flat(x) : j + c < 256 } }
          /\ c >= 128 => a.lower = {}
          /\ c >= 256 => a = U256({}, {})
    /\ op = "shr" =>
          /\ ~panicked
          /\ Flat(a) = { i - c : i \in { j \in Flat(x) : j >= c } }
          /\ c >= 128 => a.upper = {}
          /\ c >= 256 => a = U256({}, {})

\* A bit of the lower half was shifted into the upper half by less than 128.
BitCrossedUpward ==
    /\ op = "shl"
    /\ c \in 1..127
    /\ \E i \in x.lower : i + c >= 128 /\ (i + c - 128) \in a.upper

\* C18: U256::new(v, shift) returns, for every u128 v and every shift in
\* 0 .. 256, those above 128 included, v * 2^shift modulo 2^256.
WidenIsTotal ==
    (op = "U256_new" /\ c \in 0..256) =>
        /\ ~panicked
        /\ Flat(a) = { i + c : i \in { j \in x : j + c < 256 } }

\* C19: u128::clmul, the XOR over the set bits i of b of a << i cut to 128
\* bits in the lower half and of a >> (128 - i) in the upper half, is the
\* clmul of the narrower types taken at 128 bits: lower | (upper << 128) is
\* that product; clmul(0xF, 2^127 + 1) has lower half 2^127 + 0xF and upper
\* half 0x7.
TwoHalvesClmulIsClmul ==
    (op = "clmul" /\ gf.BITS = 128) =>
        LET ref == clmul(128, x, b)
        IN /\ ~panicked
           /\ BitOr(a.lower, Shl(a.upper, 128, 256)) = ref
           /\ a.lower = Cast(ref, 128)
           /\ a.upper = Shr(ref, 128)
           /\ (x = Bits(\HF) /\ b = {0, 127}) =>
                  a.lower = {0, 1, 2, 3, 127} /\ a.upper = {0, 1, 2}

\* The 128-bit product of 0xF and 2^127 + 1 was taken.
WideClmulExampleTaken ==
    /\ op = "clmul"
    /\ gf.BITS = 128
    /\ x = Bits(\HF)
    /\ b = {0, 127}
    /\ a.upper # {}

-----------------------------------------------------------------------------
(* Properties of the construction of the tables *)

\* C20: generate_lut writes exp_tbl[i] and log_tbl[value] only at indices
\* below the first index above 0 at which the value is 1 again, in
\* NUM_ELEM - 1 passes at most; the entries from there on keep their
\* initial value.
RecordsOnlyBeforeCycle ==
    /\ TABLES.i <= lut_NUM_ELEM(gf.POLY) - 1
    /\ \A j \in DOMAIN TABLES.exp_tbl : j > 0 => TABLES.exp_tbl[j] # {0}

\* C20, amended: generate_lut writes exp_tbl[i] and log_tbl[value] at every
\* index i of 0 .. NUM_ELEM - 2, in NUM_ELEM - 1 passes, whether the value has
\* been 1 again or not, and at no other index; log_tbl[value] is the last
\* index at which the value was written.  The tables of a polynomial that
\* passes validate hold no 1 at an index of 1 .. NUM_ELEM - 2.
RecordsEveryIndex ==
    LET N == lut_NUM_ELEM(gf.POLY)
        E == TABLES.exp_tbl
        L == TABLES.log_tbl
    IN /\ TABLES.i \in 0..(N - 1)
       /\ DOMAIN E = 0..(TABLES.i - 1)
       /\ op # "generate_lut" => TABLES.i = N - 1
       /\ TABLES.i > 0 => L[Val(E[TABLES.i - 1])] = TABLES.i - 1
       /\ op = "new" =>
              /\ DOMAIN L = {0} \cup { Val(E[j]) : j \in DOMAIN E }
              /\ \A j \in DOMAIN E :
                     /\ L[Val(E[j])] >= j
                     /\ E[L[Val(E[j])]] = E[j]
                     /\ \A k \in DOMAIN E : E[k] = E[j] => k <= L[Val(E[j])]
       /\ (op = "validate" /\ ~panicked) => \A j \in 1..(N - 2) : E[j] # {0}

\* generate_lut returned the tables of 0x15 with the 1 written at index 6,
\* where the value is 1 again, and the entries after it.
WrittenPastCycle ==
    /\ op = "new"
    /\ gf.POLY = Bits(\H15)
    /\ Get(TABLES.exp_tbl, 6, {}) = {0}
    /\ DOMAIN TABLES.exp_tbl = 0..14

-----------------------------------------------------------------------------
(* Properties of the loops *)

\* The loop of inverse has made at most degree(a) + 1 passes, at most as
\* many as the storage type has bits, and at its test the passes made and
\* the degree of new_r together do not exceed degree(a).
InversePassesBounded ==
    (op \in {"inverse", "inverse_return"} /\ a # ZERO) =>
        /\ c <= Degree(a) + 1
        /\ Degree(a) + 1 <= gf.BITS
        /\ op = "inverse" => c + Degree(x.new_r) <= Degree(a)

\* A pass of the loop of inverse lowers the degree of new_r.
InversePassDescends ==
    (op = "inverse" /\ op' = "inverse") => Degree(x'.new_r) < Degree(x.new_r)

\* The dividend and the divisor of the running gf2_poly_div as polynomials.
Dividend == IF gf.BITS = 256 THEN Flat(a) ELSE a
Divisor  == IF gf.BITS = 256 THEN Flat(b) ELSE b

\* At the head of the loop of gf2_poly_div the passes made and the passes
\* to make are degree(dividend) + 1 together, at most the bits of the type.
PolyDivPassesBounded ==
    /\ op = "poly_div" => /\ c + x.cur_deg = Degree(Dividend)
                          /\ x.cur_deg >= -1
    /\ op \in {"poly_div", "poly_div_return"} => c <= gf.BITS

\* The construction of the tables has made at most NUM_ELEM - 1 passes.
LutPassesBounded ==
    op \in {"generate_lut", "new"} => TABLES.i <= lut_NUM_ELEM(gf.POLY) - 1

\* The call has returned or panicked.
Returned == op \in {"inverse_return", "poly_div_return", "new"}

\* The call is at one of its positions: it is running or it has returned.
AtPosition == Running \/ Returned

\* C21: every call of inverse with a nonzero value, in the range of the
\* field or not, ends after at most degree(a) + 1 <= W passes, each pass
\* lowering the degree of new_r; every call of gf2_poly_div that returns
\* has made exactly degree(dividend) + 1 passes, at most W or 2W; the
\* construction of the tables makes at most NUM_ELEM - 1 passes.
EveryCallRunsDegreePlusOnePasses ==
    /\ [](/\ AtPosition
          /\ InversePassesBounded
          /\ PolyDivPassesBounded
          /\ (op = "poly_div_return" /\ ~panicked)
                 => c = Degree(Dividend) + 1
          /\ LutPassesBounded)
    /\ [][InversePassDescends]_vars
    /\ <>Returned

\* C21, amended: the same, but a call of gf2_poly_div makes exactly
\* degree(dividend) + 1 passes only when its divisor is neither 0 nor 1 and
\* it reaches its loop; with the divisor 1 it returns (dividend, 0) without
\* a pass, and it panics without a pass where it panics.
EveryLoopIsBounded ==
    /\ [](/\ AtPosition
          /\ InversePassesBounded
          /\ PolyDivPassesBounded
          /\ op = "poly_div_return" =>
                 c = IF panicked \/ Divisor = {0} THEN 0
                     ELSE Degree(Dividend) + 1
          /\ LutPassesBounded)
    /\ [][InversePassDescends]_vars
    /\ <>Returned

\* inverse returned after three passes or more from a value of u8 outside
\* the range of its field.
InverseOutOfRangeReturned ==
    /\ op = "inverse_return"
    /\ ~panicked
    /\ gf.BITS = 8
    /\ gf2_validate(gf.POLY, a)
    /\ c >= 3

-----------------------------------------------------------------------------
(* Properties of the loop of inverse *)

\* P of degree 1 or more has no divisor of a degree from 1 to half its own.
Irreducible(P) ==
    /\ Degree(P) >= 1
    /\ \A d \in SUBSET (0..(Degree(P) \div 2)) :
           Degree(d) >= 1 => ~Multiple(d, P)

\* u times the element a is v modulo the polynomial of the field.
Congruent(u, v) == Multiple(gf.POLY, BitXor(Convolution(u, a), v))

\* The quotient the next pass of the loop of inverse computes, before its
\* cast to the storage type.
NextQuotient == gf2_poly_div(128, x.r, x.new_r).value.q

\* The loop of inverse runs or has been left on a nonzero element of the
\* field.
InverseOfElement ==
    /\ op \in {"inverse", "inverse_return"}
    /\ a # ZERO
    /\ Degree(a) < M(gf)

\* What holds of the locals of inverse whatever the cast does: no panic,
\* t * a = r, r = 1 once new_r is 0, new_t unchanged by its cast, and the
\* returned t the inverse of a.
EuclidOfT ==
    /\ ~panicked
    /\ Congruent(x.t, x.r)
    /\ x.new_r = {} => x.r = {0}
    /\ Cast(x.new_t, gf.BITS) = x.new_t
    /\ op = "inverse_return" => /\ x.new_r = {}
                                /\ b = x.t
                                /\ Congruent(b, {0})
                                /\ Degree(b) < M(gf)

\* C22: for an irreducible P and a nonzero element a of the field, at the
\* test of the loop of inverse t * a = r and new_t * a = new_r modulo P, on
\* exit r = 1 and the returned t is the inverse of a; the casts of the
\* quotient and of new_t to the storage type change neither value, also
\* when M = W.
EuclidInvariant ==
    InverseOfElement =>
        \/ /\ EuclidOfT
           /\ Congruent(x.new_t, x.new_r)
           /\ x.new_r # {} => Cast(NextQuotient, gf.BITS) = NextQuotient
        \/ ~Irreducible(gf.POLY)

\* The one pass of inverse(ONE) in a field with M = W: its quotient is P, of
\* degree W, and the cast to the storage type drops the term x^W of it.
QuotientCut == M(gf) = gf.BITS /\ a = ONE

\* C22, amended: the same of t, of r on exit and of the returned value, and
\* of new_t and of the casts except for inverse(ONE) when M = W.  There the
\* quotient P loses x^W in its cast and the loop is left with new_r = 0 and
\* new_t = P - x^W, which is not 0 modulo P; t = 1 is returned all the same.
EuclidInvariantButQuotientCut ==
    InverseOfElement =>
        \/ /\ EuclidOfT
           /\ IF QuotientCut
              THEN /\ x.new_r # {} =>
                          /\ NextQuotient = gf.POLY
                          /\ Cast(NextQuotient, gf.BITS) # NextQuotient
                          /\ Congruent(x.new_t, x.new_r)
                  /\ x.new_r = {} =>
                          /\ x.new_t = Cast(gf.POLY, gf.BITS)
                          /\ ~Congruent(x.new_t, x.new_r)
                          /\ x.t = ONE
              ELSE /\ Congruent(x.new_t, x.new_r)
                   /\ x.new_r # {} =>
                          Cast(NextQuotient, gf.BITS) = NextQuotient
        \/ ~Irreducible(gf.POLY)

\* inverse returned after three passes or more in GFu8<0x11D>, where M = W.
EuclidReturnedFullWidth ==
    /\ op = "inverse_return"
    /\ ~panicked
    /\ gf.BITS = 8
    /\ gf.POLY = Bits(\H11D)
    /\ c >= 3
    /\ x.r = {0}
    /\ Irreducible(gf.POLY)

=============================================================================
